---- MODULE Spec2Model ----
(***************************************************************************)
(* A model of runpod-cli.py: the SSH reconciler setup_ssh_access and the   *)
(* pod commands that call the pod API and edit ~/.runpod-config.           *)
(*                                                                         *)
(* Text files are sequences of tokens.  A token is a piece of text that    *)
(* the program writes or searches for as a whole ("\n", the include        *)
(* directive, "Host runpod", ...), so that Python's substring test         *)
(* `needle in content` is the contiguous-subsequence test In(needle, hay). *)
(* The known-hosts file is the set of its lines: ssh reads it as a set of  *)
(* (host pattern, key) pairs, and neither the order of the lines nor a     *)
(* repeated line changes what it trusts.  Permission bits are not kept:    *)
(* nothing in the program reads them; os.chmod remains a step that can     *)
(* raise.                                                                  *)
(***************************************************************************)
EXTENDS Integers, Sequences, FiniteSets, TLC

VARIABLES
    exists,     \* the paths (directories and files) that exist on disk
    fs,         \* path -> content of the file at that path
    pods,       \* the pod API's state: pod id -> pod
    terminating,\* the pods the API was asked to terminate and still holds
    last,       \* what the most recent setup_ssh_access call did and returned
    run,        \* the command invocation in progress, or the last one finished
    created     \* the pod ids the provider has given out

vars == <<exists, fs, pods, terminating, last, run, created>>

-----------------------------------------------------------------------------
(* Bounds of the model *)

\* longest main SSH configuration (in tokens) a behaviour starts from
MaxLen == 2

-----------------------------------------------------------------------------
(* Paths: lines 12 and 35-39 *)

ssh_dir == "~/.ssh"
runpod_dir == "~/.ssh/runpod.d"
current_conf == "~/.ssh/runpod.d/current.conf"
ssh_config == "~/.ssh/config"
known_hosts == "~/.ssh/known_hosts"
CONFIG_FILE == "~/.runpod-config"

Files == {current_conf, ssh_config, known_hosts, CONFIG_FILE}

-----------------------------------------------------------------------------
(* Text *)

NL == "\n"
INCLUDE == "Include ~/.ssh/runpod.d/*.conf"
HOST_RUNPOD == "Host runpod"
HOST_OPTS == "  User root\n  StrictHostKeyChecking no\n  UserKnownHostsFile /dev/null\n"
\* text that follows a directive on its line: "Host runpod-old", "Include ...conf-old"
SUFFIX == "-old"

Whitespace == {NL}

\* Python's `needle in hay` on strings
In(needle, hay) ==
    \E i \in 0..(Len(hay) - Len(needle)) :
        SubSeq(hay, i + 1, i + Len(needle)) = needle

RECURSIVE lstrip(_)
lstrip(s) ==
    IF s # <<>> /\ Head(s) \in Whitespace THEN lstrip(Tail(s)) ELSE s

RECURSIVE rstrip(_)
rstrip(s) ==
    IF s # <<>> /\ s[Len(s)] \in Whitespace
    THEN rstrip(SubSeq(s, 1, Len(s) - 1))
    ELSE s

\* str.strip()
strip(s) == lstrip(rstrip(s))

Digit(d) ==
    CASE d = 0 -> "0" [] d = 1 -> "1" [] d = 2 -> "2" [] d = 3 -> "3"
      [] d = 4 -> "4" [] d = 5 -> "5" [] d = 6 -> "6" [] d = 7 -> "7"
      [] d = 8 -> "8" [] d = 9 -> "9"

\* f"{n}" of a non-negative int: its decimal digits
RECURSIVE Str(_)
Str(n) == IF n < 10 THEN <<Digit(n)>> ELSE Str(n \div 10) \o <<Digit(n % 10)>>

-----------------------------------------------------------------------------
(* The pod API (runpod.get_pod): what it can answer *)

H1 == "1.2.3.4"
H2 == "5.6.7.8"
\* a mapping without "ip" (port.get('ip') is None, which is falsy like "")
NoIp == ""
\* a mapping without "publicPort" (None, which is falsy like 0)
NoPort == 0

Mapping(private, ip, public) ==
    [privatePort |-> private, ip |-> ip, publicPort |-> public]

\* runtime.ports of a running pod
PortLists ==
    { <<>>,
      <<Mapping(22, H1, 40001)>>,
      <<Mapping(8888, H1, 40002), Mapping(22, H1, 40001)>>,
      <<Mapping(22, H2, 40002), Mapping(22, H1, 40001)>>,
      <<Mapping(22, NoIp, 40001), Mapping(22, H2, 40002)>>,
      <<Mapping(22, H1, NoPort)>> }

P1 == <<"a", "b", "1">>
P2 == <<"a", "b", "2">>
P3 == <<"c", "d">>
PodIds == {P1, P2, P3}

N1 == <<"g", "w">>
N2 == <<"a", "b">>
PodNames == {N1, N2}

\* get_pod's answer for an id that names no pod (None)
NoPod == [present |-> FALSE, name |-> <<>>, running |-> FALSE, ports |-> <<>>]

\* a pod; without a runtime when running is FALSE
Pod(name, running, ports) ==
    [present |-> TRUE, name |-> name, running |-> running, ports |-> ports]

-----------------------------------------------------------------------------
(* setup_ssh_access, lines 33-128 *)

\* lines 57-64: the first mapping of private port 22, or neither host nor port
RECURSIVE FirstSshPort(_)
FirstSshPort(ports) ==
    IF ports = <<>> THEN [ip |-> NoIp, publicPort |-> NoPort]
    ELSE IF Head(ports).privatePort = 22
         THEN [ip |-> Head(ports).ip, publicPort |-> Head(ports).publicPort]
         ELSE FirstSshPort(Tail(ports))

\* lines 72-73: the two lines written to current.conf
ConfText(host, port) ==
    <<"HostName ", host, NL, "Port ">> \o Str(port) \o <<NL>>

WriteCurrentConf_append(old, host, port) == old \o ConfText(host, port)

\* lines 71-73: open(current_conf, 'w') replaces whatever the file held
WriteCurrentConf(old, host, port) == ConfText(host, port)

\* line 77
include_line == <<INCLUDE, NL>>
\* line 78
host_block == <<NL, HOST_RUNPOD, NL, HOST_OPTS>>

\* lines 84 and 94: include_line.strip() in content
HasInclude(content) == In(strip(include_line), content)

HasHostRunpod_path(content) == In(<<HOST_RUNPOD>>, <<ssh_config>>)

\* lines 84 and 99: "Host runpod" in content
HasHostRunpod(content) == In(<<HOST_RUNPOD>>, content)

config_needs_update_always(present, content) == TRUE

\* lines 80-85
config_needs_update(present, content) ==
    ~(present /\ HasInclude(content) /\ HasHostRunpod(content))

NewMainConfig_include_last(existing_content) ==
    existing_content
    \o (IF ~HasInclude(existing_content) THEN include_line ELSE <<>>)
    \o (IF ~HasHostRunpod(existing_content) THEN host_block ELSE <<>>)

\* lines 93-100: what is written to the main SSH configuration
NewMainConfig(existing_content) ==
    (IF ~HasInclude(existing_content) THEN include_line ELSE <<>>)
    \o existing_content
    \o (IF ~HasHostRunpod(existing_content) THEN host_block ELSE <<>>)

\* a line of known_hosts or of ssh-keyscan's output: the host field is either
\* the bare host ("h") or the bracketed form ("[h]:p"), followed by a space,
\* the key type and the key
BareKey(host, type) ==
    [form |-> "bare", host |-> host, port |-> 0, type |-> type]
BracketKey(host, port, type) ==
    [form |-> "bracket", host |-> host, port |-> port, type |-> type]

\* the host patterns of lines 103 and 105
BarePattern(host) == [form |-> "bare", host |-> host, port |-> 0]
BracketPattern(host, port) == [form |-> "bracket", host |-> host, port |-> port]

Matches(entry, pattern) ==
    /\ entry.form = pattern.form
    /\ entry.host = pattern.host
    /\ entry.port = pattern.port

\* lines 103-106: ssh-keygen -R <pattern> drops the lines of that host
RemoveKeys(entries, pattern) == {e \in entries : ~Matches(e, pattern)}

\* lines 108-111: what ssh-keyscan -t ed25519,rsa prints for a host that
\* answers, one line per key type; it names the host bare or bracketed
KeyTypes == {"ed25519", "rsa"}
ScanOutput(form, host, port) ==
    { IF form = "bare" THEN BareKey(host, t) ELSE BracketKey(host, port, t) :
        t \in KeyTypes }

RewriteKeys_none(stdout, host, port) == stdout

\* line 114: stdout.replace(f"{ssh_host} ", f"[{ssh_host}]:{ssh_port} ");
\* "h " occurs in a line that starts "h " and not in one that starts "[h]:p "
RewriteKeys(stdout, host, port) ==
    { IF e.form = "bare" /\ e.host = host
      THEN BracketKey(host, port, e.type) ELSE e : e \in stdout }

\* what the environment does to one call: the one step that raises, if any,
\* whether each ssh-keygen -R run succeeds, and what ssh-keyscan comes to
EarlyFaults == {"makedirs", "get_pod", "malformed"}
DiskFaults ==
    { "conf_open", "conf_write", "conf_chmod", "cfg_read", "cfg_open",
      "cfg_write", "keygen_launch" }
LateFaults == {"keyscan_launch", "kh_open", "kh_chmod"}

\* ssh-keyscan: a non-zero exit, nothing printed, or keys (host bare or bracketed)
ScanResults == {"nonzero", "empty", "bare", "bracket"}

Env(fault, rm_bare, rm_bracket, scan) ==
    [fault |-> fault, rm_bare |-> rm_bare, rm_bracket |-> rm_bracket, scan |-> scan]

\* the environments that differ for a call that gets no endpoint
EarlyEnvs == {Env(f, TRUE, TRUE, "nonzero") : f \in EarlyFaults \cup {"none"}}

Envs ==
    EarlyEnvs
    \cup {Env(f, TRUE, TRUE, "nonzero") : f \in DiskFaults}
    \cup {Env(f, TRUE, TRUE, "bare") : f \in LateFaults}
    \cup {Env("none", e[1], e[2], e[3]) : e \in BOOLEAN \X BOOLEAN \X ScanResults}

\* the disk as a call sees and leaves it, with what the call did to it
Opened(st, path) == [st EXCEPT !.writes = @ \cup {path}]

\* open(path, 'w') or open(path, 'a') succeeded: the file exists
Created(st, path) == [Opened(st, path) EXCEPT !.exists = @ \cup {path}]

Written(st, path, text) == [Created(st, path) EXCEPT !.fs[path] = text]

Step(st, raised) == [st |-> st, raised |-> raised]

\* lines 70-74
StepCurrentConf(st, ep, fault) ==
    IF fault = "conf_open" THEN Step(Opened(st, current_conf), TRUE)
    ELSE IF fault = "conf_write" THEN Step(Written(st, current_conf, <<>>), TRUE)
    ELSE Step(Written(st, current_conf,
                WriteCurrentConf(st.fs[current_conf], ep.ip, ep.publicPort)),
              fault = "conf_chmod")

\* lines 76-100
StepMainConfig(st, fault) ==
    LET present == ssh_config \in st.exists
        content == st.fs[ssh_config]
    IN  IF present /\ fault = "cfg_read" THEN Step(st, TRUE)
        ELSE IF ~config_needs_update(present, content) THEN Step(st, FALSE)
        ELSE IF fault = "cfg_open" THEN Step(Opened(st, ssh_config), TRUE)
        ELSE IF fault = "cfg_write" THEN Step(Written(st, ssh_config, <<>>), TRUE)
        ELSE Step([Written(st, ssh_config, NewMainConfig(content)) EXCEPT
                      !.wrote_include = ~HasInclude(content),
                      !.wrote_block = ~HasHostRunpod(content)], FALSE)

\* lines 102-106: ssh-keygen -R edits known_hosts when it exists and the run
\* succeeds; its exit status is not looked at
StepPurge(st, ep, env) ==
    LET a == IF env.rm_bare /\ known_hosts \in st.exists
             THEN RemoveKeys(st.fs[known_hosts], BarePattern(ep.ip))
             ELSE st.fs[known_hosts]
        b == IF env.rm_bracket /\ known_hosts \in st.exists
             THEN RemoveKeys(a, BracketPattern(ep.ip, ep.publicPort))
             ELSE a
    IN  [st EXCEPT !.fs[known_hosts] = b]

\* lines 108-113: result.returncode == 0 and result.stdout
ScanGaveKeys(scan) == scan \in {"bare", "bracket"}

\* lines 102-121; by names what raised
StepKnownHosts(st, ep, env) ==
    IF env.fault = "keygen_launch"
    THEN [st |-> st, raised |-> TRUE, by |-> "ssh-keygen"]
    ELSE LET p == StepPurge(st, ep, env)
         IN  IF env.fault = "keyscan_launch"
             THEN [st |-> p, raised |-> TRUE, by |-> "ssh-keyscan"]
             ELSE IF ~ScanGaveKeys(env.scan)
             THEN [st |-> p, raised |-> FALSE, by |-> ""]
             ELSE IF env.fault = "kh_open"
             THEN [st |-> Opened(p, known_hosts), raised |-> TRUE, by |-> known_hosts]
             ELSE LET stdout == ScanOutput(env.scan, ep.ip, ep.publicPort)
                      new_keys == RewriteKeys(stdout, ep.ip, ep.publicPort)
                  IN  [st |-> [Written(p, known_hosts,
                                       p.fs[known_hosts] \cup new_keys)
                               EXCEPT !.scanned = TRUE],
                       raised |-> env.fault = "kh_chmod",
                       by |-> known_hosts]

Outcome(st, ret, msg, ep) ==
    [st |-> st, ret |-> ret, msg |-> msg, host |-> ep.ip, port |-> ep.publicPort]

NoEndpoint == [ip |-> NoIp, publicPort |-> NoPort]

\* runpod.get_pod(pod_id)
get_pod(api, pod_id) == IF pod_id \in DOMAIN api THEN api[pod_id] ELSE NoPod

\* lines 47-68: the host and port the call goes on with, if it does
Resolves(pod) ==
    /\ pod.present
    /\ pod.running
    /\ FirstSshPort(pod.ports).ip # NoIp
    /\ FirstSshPort(pod.ports).publicPort # NoPort

\* lines 33-128, on the disk (exists, fs) and the API's state api.  Lines
\* 41-42 stand before the try: os.makedirs raises when it cannot make a
\* directory that is not there (a parent that cannot be written, a file of
\* that name), and nothing catches it.  ret is
\* "True", "False", or "raise" when an exception leaves the function; msg is
\* the last line printed (line 127 prints the exception, which names the
\* file or the program that failed)
setup_ssh_access(pod_id, api, env) ==
    LET st0 == [exists |-> exists, fs |-> fs, writes |-> {},
                wrote_include |-> FALSE, wrote_block |-> FALSE, scanned |-> FALSE]
        Error(what) == <<"Error setting up SSH", what>>
    IN  IF env.fault = "makedirs" /\ runpod_dir \notin exists
        THEN Outcome(st0, "raise", <<>>, NoEndpoint)
        ELSE
        LET st1 == [st0 EXCEPT !.exists = @ \cup {ssh_dir, runpod_dir}]
            pod == get_pod(api, pod_id)
        IN  IF env.fault \in {"get_pod", "malformed"}
            THEN Outcome(st1, "False", Error("get_pod"), NoEndpoint)
            ELSE IF ~pod.present
            THEN Outcome(st1, "False", <<"Pod not found">>, NoEndpoint)
            ELSE IF ~pod.running
            THEN Outcome(st1, "False", <<"Pod is not running yet">>, NoEndpoint)
            ELSE IF ~Resolves(pod)
            THEN Outcome(st1, "False", <<"SSH port not found">>, NoEndpoint)
            ELSE
            LET ep == FirstSshPort(pod.ports)
                c == StepCurrentConf(st1, ep, env.fault)
                m == StepMainConfig(c.st, env.fault)
                k == StepKnownHosts(m.st, ep, env)
            IN  IF c.raised
                THEN Outcome(c.st, "False", Error(current_conf), ep)
                ELSE IF m.raised
                THEN Outcome(m.st, "False", Error(ssh_config), ep)
                ELSE IF k.raised
                THEN Outcome(k.st, "False", Error(k.by), ep)
                ELSE Outcome(k.st, "True", <<"You can now connect">>, ep)

\* how a successful call's endpoint relates to that of the call before it
Relation(r) ==
    IF r.ret # "True" THEN "none"
    ELSE IF last.ret # "True" THEN "first"
    ELSE IF last.host = r.host /\ last.port = r.port THEN "same"
    ELSE "changed"

\* what the provider can hold for one pod
PodStates(name) ==
    {NoPod, Pod(name, FALSE, <<>>)} \cup {Pod(name, TRUE, l) : l \in PortLists}

\* what one call comes to, for every environment it can meet
Calls(pod_id, api) ==
    { setup_ssh_access(pod_id, api, env) :
        env \in (IF Resolves(get_pod(api, pod_id)) THEN Envs ELSE EarlyEnvs) }

\* A caller (cmd_ssh, cmd_up) runs setup_ssh_access for pod P1.  Since the
\* call before, the provider may have started, stopped, recreated or removed
\* the pod: the API's state is any state by the time of the call.
SetupSshAccess ==
    /\ \E p \in PodStates(N1) :
        \E api \in {[pods EXCEPT ![P1] = p]} :
            /\ pods' = api
            /\ \E r \in Calls(P1, api) :
                /\ exists' = r.st.exists
                /\ fs' = r.st.fs
                /\ last' = [ret |-> r.ret, msg |-> r.msg,
                            host |-> r.host, port |-> r.port,
                            writes |-> r.st.writes,
                            wrote_include |-> r.st.wrote_include,
                            wrote_block |-> r.st.wrote_block,
                            scanned |-> r.st.scanned, rel |-> Relation(r)]
    /\ UNCHANGED <<terminating, run, created>>

-----------------------------------------------------------------------------
(* ~/.runpod-config: a sequence of lines.  A line KEY="value" is the key   *)
(* and the raw text after the "=" (the value in its quotes); a line        *)
(* without "=" has the key "".                                             *)

QUOTE == "\""

Line(key, value) == [key |-> key, value |-> <<QUOTE>> \o value \o <<QUOTE>>]
Blank == [key |-> "", value |-> <<>>]

RECURSIVE lstrip_quotes(_)
lstrip_quotes(s) ==
    IF s # <<>> /\ Head(s) = QUOTE THEN lstrip_quotes(Tail(s)) ELSE s

RECURSIVE rstrip_quotes(_)
rstrip_quotes(s) ==
    IF s # <<>> /\ s[Len(s)] = QUOTE
    THEN rstrip_quotes(SubSeq(s, 1, Len(s) - 1))
    ELSE s

\* line 25: value.strip('"')
strip_quotes(s) == lstrip_quotes(rstrip_quotes(s))

\* lines 20-25: the keys of the dict load_config builds
config_keys(lines) == {lines[i].key : i \in 1..Len(lines)} \ {""}

\* lines 20-25: config[key]; a later line for a key replaces an earlier one
config_value(lines, key) ==
    LET at == {i \in 1..Len(lines) : lines[i].key = key}
        i == CHOOSE i \in at : \A j \in at : j <= i
    IN  strip_quotes(lines[i].value)

without_pod_id_first(lines) ==
    LET at == {i \in 1..Len(lines) : lines[i].key = "RUNPOD_POD_ID"}
        first == CHOOSE i \in at : \A j \in at : i <= j
    IN  IF at = {} THEN lines
        ELSE SubSeq(lines, 1, first - 1) \o SubSeq(lines, first + 1, Len(lines))

\* lines 418-421 and 476-479: the lines kept when the pod id is removed
without_pod_id(lines) ==
    LET keep(l) == l.key # "RUNPOD_POD_ID" IN SelectSeq(lines, keep)

\* ~/.runpod-config as cmd_setup writes it (lines 775-781)
SetupConfig ==
    << Line("RUNPOD_API_KEY", <<"k">>), Line("RUNPOD_VOLUME_ID", <<>>),
       Line("RUNPOD_GPU_TYPE", <<"g">>), Line("RUNPOD_DOCKER_IMAGE", <<"i">>),
       Line("RUNPOD_SETUP_SCRIPT", <<>>), Line("RUNPOD_AUTO_SSH", <<"true">>) >>

\* line 230: what cmd_up appends for the pod it created
PodIdLines(id) == <<Blank, Line("RUNPOD_POD_ID", id)>>

-----------------------------------------------------------------------------
(* cmd_down, lines 354-485.  Time is counted in check intervals of 0.5 s.  *)

\* max_wait = 30 s, in check intervals
down_max_wait == 60
\* check_interval = 0.5 s, in check intervals
down_check_interval == 1

\* str.startswith
startswith(s, prefix) ==
    Len(prefix) <= Len(s) /\ SubSeq(s, 1, Len(prefix)) = prefix

\* line 370: the pods of get_pods() whose name is the target or whose id
\* starts with it
matching_pods(api, target) ==
    {id \in DOMAIN api :
        /\ api[id].present
        /\ (api[id].name = target \/ startswith(id, target))}

resolve_first_match(pod_found, matching) ==
    IF pod_found THEN "pod"
    ELSE IF matching = {} THEN "none"
    ELSE "one"

\* lines 365-382: what the target comes to
resolve(pod_found, matching) ==
    IF pod_found THEN "pod"
    ELSE IF matching = {} THEN "none"
    ELSE IF Cardinality(matching) > 1 THEN "multiple"
    ELSE "one"

NoId == <<>>

\* the pod API call of this step that raises, if any
ApiFaults == {"none", "get_pod", "get_pods", "terminate_pod"}

\* an invocation that is over: sys.exit(code), or the end of the command (0)
Exit(cmd, args, code, out) ==
    [pc |-> "done", cmd |-> cmd, args |-> args, pod_id |-> NoId, elapsed |-> 0,
     tracked |-> NoId, exit_code |-> code, out |-> out, listed |-> {},
     terminated |-> {}, nth |-> 0, opts |-> {}, config |-> <<>>, did |-> <<>>]

\* lines 386-393 and 447-453: terminate_pod, then the polling loop
Terminate(args, pod_id, tracked, fault) ==
    IF fault = "terminate_pod" THEN Exit("down", args, 1, "Error")
    ELSE [pc |-> "down_wait", cmd |-> "down", args |-> args, pod_id |-> pod_id,
          elapsed |-> 0, tracked |-> tracked, exit_code |-> -1,
          out |-> "Terminating pod", listed |-> {}, terminated |-> {pod_id},
          nth |-> 0, opts |-> {}, config |-> <<>>, did |-> <<"terminate_pod">>]

\* lines 354-393 and 433-453: cmd_down up to the first sleep of its polling
\* loop, or to its end; args is args.args, lines the config file
cmd_down(args, api, lines, fault) ==
    LET tracked == IF "RUNPOD_POD_ID" \in config_keys(lines)
                   THEN config_value(lines, "RUNPOD_POD_ID") ELSE NoId
    IN  IF args # <<>>
        THEN LET target == args[1]
                 matching == matching_pods(api, target)
                 found == resolve(get_pod(api, target).present, matching)
             IN  IF fault = "get_pod" THEN Exit("down", args, 1, "Error")
                 ELSE IF found = "pod" THEN Terminate(args, target, tracked, fault)
                 ELSE IF fault = "get_pods" THEN Exit("down", args, 1, "Error")
                 ELSE IF found = "none"
                 THEN Exit("down", args, 1, "No pod found matching")
                 ELSE IF found = "multiple"
                 THEN [Exit("down", args, 1, "Multiple pods match")
                          EXCEPT !.listed = matching]
                 ELSE Terminate(args, CHOOSE id \in matching : TRUE, tracked, fault)
        ELSE IF "RUNPOD_POD_ID" \notin config_keys(lines)
        THEN Exit("down", args, 0, "No active pod found")
        ELSE IF fault = "get_pod" THEN Exit("down", args, 1, "Error")
        ELSE IF ~get_pod(api, tracked).present
        THEN [Exit("down", args, 0, "Pod ID removed from config")
                 EXCEPT !.pod_id = tracked, !.tracked = tracked,
                        !.did = <<"remove_pod_id">>]
        ELSE Terminate(args, tracked, tracked, fault)

\* lines 413-425 and 473-481: whether the command rewrites the config file
\* at its end
removes_pod_id(r) ==
    /\ r.pc = "done"
    /\ r.exit_code = 0
    /\ r.pod_id # NoId
    /\ (r.args = <<>> \/ r.tracked = r.pod_id)

\* lines 14-18: load_config without a config file
NoConfig(cmd, args) == Exit(cmd, args, 1, "No configuration found")

\* what `down` is given: nothing, a pod id, a pod name, or the start of an id
DownArgs ==
    {<<>>} \cup {<<t>> : t \in PodIds \cup PodNames \cup {<<"a">>}}

\* `runpod down [target]` starts (run.nth tells one invocation from the one
\* before it) and runs to the first sleep of its polling
\* loop, or to its end
DownBegin ==
    /\ run.pc = "idle"
    /\ \E args \in DownArgs, fault \in ApiFaults :
        \E r \in { IF CONFIG_FILE \in exists
                   THEN cmd_down(args, pods, fs[CONFIG_FILE], fault)
                   ELSE NoConfig("down", args) } :
            /\ run' = [r EXCEPT !.nth = 1 - run.nth]
            /\ terminating' = terminating \cup r.terminated
            /\ fs' = IF removes_pod_id(r)
                     THEN [fs EXCEPT ![CONFIG_FILE] = without_pod_id(@)]
                     ELSE fs
    /\ UNCHANGED <<exists, pods, last, created>>

\* lines 395-425 and 455-481: one round of the polling loop (sleep, then
\* get_pod), and the rest of the command once the loop is over
down_poll(r, api, fault) ==
    LET elapsed == r.elapsed + down_check_interval
        ending == IF r.args = <<>> \/ r.tracked = r.pod_id
                  THEN "Pod ID removed from config" ELSE "Pod terminated"
        over(how) == [r EXCEPT !.pc = "done", !.elapsed = elapsed,
                               !.exit_code = 0, !.out = ending,
                               !.did = @ \o <<how>>
                                         \o (IF ending = "Pod terminated" THEN <<>>
                                             ELSE <<"remove_pod_id">>)]
    IN  IF fault = "get_pod"
        THEN [r EXCEPT !.pc = "done", !.elapsed = elapsed,
                       !.exit_code = 1, !.out = "Error"]
        ELSE IF ~get_pod(api, r.pod_id).present THEN over("confirmed")
        ELSE IF elapsed < down_max_wait THEN [r EXCEPT !.elapsed = elapsed]
        ELSE over("timeout")

DownPoll ==
    /\ run.pc = "down_wait"
    /\ run.elapsed < down_max_wait
    /\ \E fault \in {"none", "get_pod"} :
        \E r \in {down_poll(run, pods, fault)} :
            /\ run' = r
            /\ fs' = IF removes_pod_id(r)
                     THEN [fs EXCEPT ![CONFIG_FILE] = without_pod_id(@)]
                     ELSE fs
    /\ UNCHANGED <<exists, pods, terminating, last, created>>

\* the provider is done terminating a pod it was asked to terminate
PodTerminates ==
    /\ \E id \in terminating :
        /\ pods' = [pods EXCEPT ![id] = NoPod]
        /\ terminating' = terminating \ {id}
    /\ UNCHANGED <<exists, fs, last, run, created>>

-----------------------------------------------------------------------------
(* cmd_up, lines 196-273.  Time is counted in seconds.                     *)

\* max_wait, in seconds
up_max_wait == 300
\* check_interval, in seconds
up_check_interval == 2

\* str.lower, on the words a boolean setting is written with
Lower(word) == IF word \in {"True", "TRUE"} THEN "true" ELSE word
lower(s) == [i \in DOMAIN s |-> Lower(s[i])]

\* config.get(key, default) on the dict load_config builds
config_get(lines, key, default) ==
    IF key \in config_keys(lines) THEN config_value(lines, key) ELSE default

auto_ssh_always(lines) == TRUE

\* lines 27-29 and 258: the auto-SSH setting cmd_up goes by
auto_ssh(lines) == lower(config_get(lines, "RUNPOD_AUTO_SSH", <<"true">>)) = <<"true">>

\* lines 145-150: whether check_and_run_setup goes on to the remote script
has_setup_script(lines) ==
    /\ config_get(lines, "RUNPOD_VOLUME_ID", <<>>) # <<>>
    /\ config_get(lines, "RUNPOD_SETUP_SCRIPT", <<>>) # <<>>

\* line 210: the name cmd_up gives its pods ("gpu-workspace")
up_name == N1

\* `up` or `up --no-ssh`
UpOpts == {{}, {"--no-ssh"}}

\* the ids create_pod can return: the provider gives out no id twice
FreshIds == {id \in PodIds : id \notin created /\ ~pods[id].present}

\* lines 196-236: cmd_up up to the first sleep of its polling loop; id is
\* the id of the pod create_pod returns
cmd_up(opts, lines, id, fault) ==
    IF fault = "create_pod"
    THEN [Exit("up", <<>>, 1, "Error") EXCEPT !.opts = opts]
    ELSE [pc |-> "up_wait", cmd |-> "up", args |-> <<>>, pod_id |-> id,
          elapsed |-> 0, tracked |-> NoId, exit_code |-> -1,
          out |-> "Pod created successfully", listed |-> {}, terminated |-> {},
          nth |-> 0, opts |-> opts, config |-> lines, did |-> <<"create_pod">>]

\* `runpod up [--no-ssh]` starts: the pod is created and its id appended to
\* the config file (lines 223-230)
UpBegin ==
    /\ run.pc = "idle"
    /\ \E opts \in UpOpts :
        IF CONFIG_FILE \notin exists
        THEN /\ run' = [NoConfig("up", <<>>) EXCEPT !.nth = 1 - run.nth, !.opts = opts]
             /\ UNCHANGED <<fs, pods, created>>
        ELSE \E id \in FreshIds, fault \in {"none", "create_pod"} :
                \E r \in {cmd_up(opts, fs[CONFIG_FILE], id, fault)} :
                    /\ run' = [r EXCEPT !.nth = 1 - run.nth]
                    /\ IF r.pc = "up_wait"
                       THEN /\ pods' = [pods EXCEPT ![id] = Pod(up_name, FALSE, <<>>)]
                            /\ created' = created \cup {id}
                            /\ fs' = [fs EXCEPT ![CONFIG_FILE] = @ \o PodIdLines(id)]
                       ELSE UNCHANGED <<fs, pods, created>>
    /\ UNCHANGED <<exists, terminating, last>>

\* the setup_ssh_access calls a command can meet: all goes well; the
\* directories cannot be made; the API fails
CommandEnvs ==
    { Env("none", TRUE, TRUE, "bracket"), Env("makedirs", TRUE, TRUE, "nonzero"),
      Env("get_pod", TRUE, TRUE, "nonzero") }

CommandCalls(pod_id, api) == {setup_ssh_access(pod_id, api, env) : env \in CommandEnvs}

\* lines 143-194: what check_and_run_setup comes to where it goes on to the
\* remote script: ssh runs ("ran"), or cannot be started and
\* subprocess.run raises ("raise")
SetupRuns == {"ran", "raise"}

\* lines 258-273: cmd_up once its loop has seen the pod with a runtime; s is
\* what setup_ssh_access comes to if it is called (did holds the call and
\* what it returned), ran what the remote script comes to if
\* check_and_run_setup gets to it
up_ready(r, s, ran) ==
    LET seen == [r EXCEPT !.pc = "done", !.exit_code = 0,
                          !.did = @ \o <<"runtime">>]
        called == [seen EXCEPT !.did = @ \o <<"setup_ssh_access", s.ret>>]
        checked == [called EXCEPT !.did = @ \o <<"check_and_run_setup">>]
    IN  IF "--no-ssh" \in r.opts THEN [seen EXCEPT !.out = "SSH setup skipped"]
        ELSE IF ~auto_ssh(r.config) THEN [seen EXCEPT !.out = "Run ssh to configure"]
        ELSE IF s.ret = "raise" THEN [called EXCEPT !.exit_code = 1, !.out = "Error"]
        ELSE IF s.ret = "False" THEN [called EXCEPT !.out = "SSH setup failed"]
        ELSE IF ~has_setup_script(r.config)
        THEN [checked EXCEPT !.out = "You can now connect"]
        ELSE IF ran = "raise" THEN [checked EXCEPT !.exit_code = 1, !.out = "Error"]
        ELSE [checked EXCEPT !.out = "Running setup script"]

up_poll_timeout_fails(r, api, fault) ==
    LET elapsed == r.elapsed + up_check_interval
        pod_status == get_pod(api, r.pod_id)
    IN  IF fault = "get_pod"
        THEN [r EXCEPT !.pc = "done", !.elapsed = elapsed,
                       !.exit_code = 1, !.out = "Error"]
        ELSE IF pod_status.present /\ pod_status.running
        THEN [r EXCEPT !.pc = "ready", !.elapsed = elapsed]
        ELSE IF elapsed < up_max_wait THEN [r EXCEPT !.elapsed = elapsed]
        ELSE [r EXCEPT !.pc = "done", !.elapsed = elapsed, !.exit_code = 1,
                       !.out = "Pod may still be starting",
                       !.did = @ \o <<"timeout">>]

\* lines 239-256: one round of the polling loop (sleep, then get_pod):
\* "ready", or the command's state when it is not
up_poll(r, api, fault) ==
    LET elapsed == r.elapsed + up_check_interval
        pod_status == get_pod(api, r.pod_id)
    IN  IF fault = "get_pod"
        THEN [r EXCEPT !.pc = "done", !.elapsed = elapsed,
                       !.exit_code = 1, !.out = "Error"]
        ELSE IF pod_status.present /\ pod_status.running
        THEN [r EXCEPT !.pc = "ready", !.elapsed = elapsed]
        ELSE IF elapsed < up_max_wait THEN [r EXCEPT !.elapsed = elapsed]
        ELSE [r EXCEPT !.pc = "done", !.elapsed = elapsed, !.exit_code = 0,
                       !.out = "Pod may still be starting",
                       !.did = @ \o <<"timeout">>]

\* one round of cmd_up's polling loop, and the rest of the command once the
\* loop is over
UpPoll ==
    /\ run.pc = "up_wait"
    /\ run.elapsed < up_max_wait
    /\ \E fault \in {"none", "get_pod"} :
        \E p \in {up_poll(run, pods, fault)} :
            IF p.pc # "ready"
            THEN /\ run' = p
                 /\ UNCHANGED <<exists, fs>>
            ELSE \E s \in CommandCalls(p.pod_id, pods), ran \in SetupRuns :
                    \E r \in {up_ready(p, s, ran)} :
                        /\ run' = r
                        /\ IF "setup_ssh_access" \in {r.did[i] : i \in DOMAIN r.did}
                           THEN exists' = s.st.exists /\ fs' = s.st.fs
                           ELSE UNCHANGED <<exists, fs>>
    /\ UNCHANGED <<pods, terminating, last, created>>

\* the provider starts a pod it was asked to create: the pod gets a runtime
\* with its port mappings
PodStarts ==
    /\ \E id \in PodIds :
        /\ pods[id].present
        /\ ~pods[id].running
        /\ pods' = [pods EXCEPT ![id] = Pod(@.name, TRUE, <<Mapping(22, H1, 40001)>>)]
    /\ UNCHANGED <<exists, fs, terminating, last, run, created>>

-----------------------------------------------------------------------------
(* cmd_ssh, cmd_status, cmd_gpus and cmd_install: commands of one step     *)

\* what load_config gives for RUNPOD_POD_ID, if anything
tracked_pod(lines) ==
    IF "RUNPOD_POD_ID" \in config_keys(lines)
    THEN config_value(lines, "RUNPOD_POD_ID") ELSE NoId

\* lines 138-141 and 580-582: setup_ssh_access(pod_id) as the last statement
\* of a command, its result dropped; an exception that leaves it ends the
\* process with a traceback and exit code 1
ends_with_ssh(cmd, did, s) ==
    [Exit(cmd, <<>>, IF s.ret = "raise" THEN 1 ELSE 0,
          IF s.ret = "raise" THEN "Traceback" ELSE s.msg[1])
        EXCEPT !.did = did \o <<"setup_ssh_access", s.ret>>]

\* lines 130-141
cmd_ssh(lines, s) ==
    IF "RUNPOD_POD_ID" \notin config_keys(lines)
    THEN Exit("ssh", <<>>, 1, "No active pod found")
    ELSE ends_with_ssh("ssh", <<>>, s)

\* lines 487-582: the GPU listing, and the statements that follow it in the
\* body of the function (lines 572-582)
cmd_gpus(lines, s, fault) ==
    IF fault = "gpus" THEN Exit("gpus", <<>>, 1, "Error")
    ELSE IF "RUNPOD_POD_ID" \notin config_keys(lines)
    THEN [Exit("gpus", <<>>, 1, "No active pod found") EXCEPT !.did = <<"gpus">>]
    ELSE ends_with_ssh("gpus", <<"gpus">>, s)

\* a command that ends with setup_ssh_access for the tracked pod
SshOrGpus ==
    /\ run.pc = "idle"
    /\ \E cmd \in {"ssh", "gpus"} :
        IF CONFIG_FILE \notin exists
        THEN /\ run' = [NoConfig(cmd, <<>>) EXCEPT !.nth = 1 - run.nth]
             /\ UNCHANGED <<exists, fs>>
        ELSE \E s \in CommandCalls(tracked_pod(fs[CONFIG_FILE]), pods),
                fault \in {"none", "gpus"} :
                \E r \in { IF cmd = "ssh" THEN cmd_ssh(fs[CONFIG_FILE], s)
                           ELSE cmd_gpus(fs[CONFIG_FILE], s, fault) } :
                    /\ run' = [r EXCEPT !.nth = 1 - run.nth]
                    /\ IF "setup_ssh_access" \in {r.did[i] : i \in DOMAIN r.did}
                       THEN exists' = s.st.exists /\ fs' = s.st.fs
                       ELSE UNCHANGED <<exists, fs>>
    /\ UNCHANGED <<pods, terminating, last, created>>

\* lines 275-352; opts is {"--all"} or {}
cmd_status(opts, api, lines, fault) ==
    LET present == {id \in DOMAIN api : api[id].present}
        pod == get_pod(api, tracked_pod(lines))
        exit(code, out) == [Exit("status", <<>>, code, out) EXCEPT !.opts = opts]
    IN  IF "--all" \in opts
        THEN IF fault = "get_pods" THEN exit(1, "Error")
             ELSE IF present = {} THEN exit(0, "No pods found")
             ELSE [exit(0, "Found pods") EXCEPT !.listed = present]
        ELSE IF "RUNPOD_POD_ID" \notin config_keys(lines)
        THEN exit(0, "No active pod found")
        ELSE IF fault = "get_pod" THEN exit(1, "Error")
        ELSE IF ~pod.present THEN exit(1, "Pod not found")
        ELSE IF pod.running THEN exit(0, "Status: Running")
        ELSE exit(0, "Status: Not running")

Status ==
    /\ run.pc = "idle"
    /\ \E opts \in {{}, {"--all"}}, fault \in {"none", "get_pod", "get_pods"} :
        \E r \in { IF CONFIG_FILE \in exists
                   THEN cmd_status(opts, pods, fs[CONFIG_FILE], fault)
                   ELSE [NoConfig("status", <<>>) EXCEPT !.opts = opts] } :
            run' = [r EXCEPT !.nth = 1 - run.nth]
    /\ UNCHANGED <<exists, fs, pods, terminating, last, created>>

\* the local script there or not, and what scp comes to
InstallEnvs == {"ok", "no_script", "scp_fails"}

\* lines 584-624; have tells whether the config file is there
cmd_install(args, have, lines, env) ==
    IF args = <<>> THEN Exit("install", args, 1, "Usage")
    ELSE IF ~have THEN NoConfig("install", args)
    ELSE IF "RUNPOD_POD_ID" \notin config_keys(lines)
    THEN Exit("install", args, 1, "No active pod found")
    ELSE IF env = "no_script" THEN Exit("install", args, 1, "Script not found")
    ELSE IF config_get(lines, "RUNPOD_VOLUME_ID", <<>>) = <<>>
    THEN Exit("install", args, 1, "No volume configured")
    ELSE IF env = "scp_fails" THEN Exit("install", args, 1, "Error copying script")
    ELSE Exit("install", args, 0, "Setup script installed successfully")

Install ==
    /\ run.pc = "idle"
    /\ \E args \in {<<>>, <<"setup.sh">>}, env \in InstallEnvs :
        \E r \in {cmd_install(args, CONFIG_FILE \in exists, fs[CONFIG_FILE], env)} :
            run' = [r EXCEPT !.nth = 1 - run.nth]
    /\ UNCHANGED <<exists, fs, pods, terminating, last, created>>

-----------------------------------------------------------------------------
(* The disk and the API a behaviour starts from *)

Seqs(S, n) == UNION {[1..k -> S] : k \in 0..n}

ConfigTokens == {NL, INCLUDE, HOST_RUNPOD, SUFFIX}

\* a connection file left by an earlier pod, with a line of its own
StaleConf == ConfText("9.9.9.9", 22) \o <<"# old", NL>>

\* keys of earlier pods at the endpoints the provider hands out again, and
\* the key of another host
StaleKeys ==
    { BareKey(H1, "ecdsa"), BracketKey(H1, 40001, "ecdsa"),
      BracketKey(H2, 40002, "ecdsa"), BareKey("github.com", "ed25519") }

NoCall ==
    [ret |-> "none", msg |-> <<>>, host |-> NoIp,
     port |-> NoPort, writes |-> {}, wrote_include |-> FALSE,
     wrote_block |-> FALSE, scanned |-> FALSE, rel |-> "none"]

\* no command has run
Idle ==
    [pc |-> "idle", cmd |-> "", args |-> <<>>, pod_id |-> NoId, elapsed |-> 0,
     tracked |-> NoId, exit_code |-> -1, out |-> "", listed |-> {},
     terminated |-> {}, nth |-> 0, opts |-> {}, config |-> <<>>, did |-> <<>>]

\* the process of a command is over: the operator is back at the shell
Exits ==
    /\ run.pc = "done"
    /\ run' = [Idle EXCEPT !.nth = run.nth]
    /\ UNCHANGED <<exists, fs, pods, terminating, last, created>>

Disk(dirs, have, cfg) ==
    /\ exists = dirs \cup have \cup {CONFIG_FILE}
    /\ fs = [f \in Files |->
                CASE f = current_conf -> IF f \in have THEN StaleConf ELSE <<>>
                  [] f = ssh_config -> cfg
                  [] f = known_hosts -> IF f \in have THEN StaleKeys ELSE {}
                  [] f = CONFIG_FILE -> SetupConfig]

\* the main configuration as setup_ssh_access leaves one that was empty
Reconciled == include_line \o host_block

\* any ~/.ssh: the directories there or not, each file there or not; the
\* main configuration is any text of up to MaxLen tokens where there is no
\* known_hosts, and empty or reconciled where known_hosts holds stale keys
InitDisk ==
    \E dirs \in {{}, {ssh_dir}, {ssh_dir, runpod_dir}},
       have \in SUBSET {current_conf, ssh_config, known_hosts},
       cfg \in Seqs(ConfigTokens, MaxLen) \cup {Reconciled} :
        /\ have # {} => ssh_dir \in dirs
        /\ current_conf \in have => runpod_dir \in dirs
        /\ ssh_config \notin have => cfg = <<>>
        /\ known_hosts \in have => cfg \in {<<>>, Reconciled}
        /\ Disk(dirs, have, cfg)

Init ==
    /\ InitDisk
    /\ pods = [id \in PodIds |-> NoPod]
    /\ terminating = {}
    /\ last = NoCall
    /\ run = Idle
    /\ created = {}

Next == SetupSshAccess

Spec == Init /\ [][Next]_vars

\* The commands: the pods P1 and P2 at the provider or not, under either
\* name; a config file as cmd_setup left it, or with the pod id cmd_up
\* added, or none
InitCli ==
    /\ \E have \in BOOLEAN, tracked \in {NoId} \cup PodIds :
        /\ ~have => tracked = NoId
        /\ exists = IF have THEN {CONFIG_FILE} ELSE {}
        /\ fs = [f \in Files |->
                    CASE f = known_hosts -> {}
                      [] f = CONFIG_FILE ->
                            IF ~have THEN <<>>
                            ELSE IF tracked = NoId THEN SetupConfig
                            ELSE SetupConfig \o PodIdLines(tracked)
                      [] OTHER -> <<>>]
    /\ pods \in [PodIds -> {NoPod} \cup {Pod(n, TRUE, <<Mapping(22, H1, 40001)>>) :
                                            n \in PodNames}]
    /\ pods[P3] = NoPod
    /\ terminating = {}
    /\ last = NoCall
    /\ run = Idle
    /\ created = {id \in PodIds : pods[id].present}

NextCli == DownBegin \/ DownPoll \/ PodTerminates \/ Exits

SpecCli == InitCli /\ [][NextCli]_vars

\* ~/.runpod-config as cmd_setup writes it for a volume and a setup script
\* (lines 775-781), with the auto-SSH setting as written or edited by hand
ConfigWith(volume, script, auto) ==
    << Line("RUNPOD_API_KEY", <<"k">>), Line("RUNPOD_VOLUME_ID", volume),
       Line("RUNPOD_GPU_TYPE", <<"g">>), Line("RUNPOD_DOCKER_IMAGE", <<"i">>),
       Line("RUNPOD_SETUP_SCRIPT", script), Line("RUNPOD_AUTO_SSH", auto) >>

EditedConfigs ==
    { ConfigWith(<<"v">>, <<"s">>, <<"true">>), ConfigWith(<<>>, <<>>, <<"True">>),
      ConfigWith(<<>>, <<>>, <<"false">>) }

\* The life of pods: no pod at the provider and no ~/.ssh yet.  The config
\* file is as cmd_setup left it, and the provider has two ids to give out;
\* or it is one of the other configs, or there is none, and the provider
\* has one id to give out
InitLifecycle ==
    /\ \E have \in BOOLEAN, cfg \in {SetupConfig} \cup EditedConfigs :
        /\ ~have => cfg = SetupConfig
        /\ exists = IF have THEN {CONFIG_FILE} ELSE {}
        /\ fs = [f \in Files |->
                    CASE f = known_hosts -> {}
                      [] f = CONFIG_FILE -> IF have THEN cfg ELSE <<>>
                      [] OTHER -> <<>>]
        /\ created = IF have /\ cfg = SetupConfig THEN {P3} ELSE {P2, P3}
    /\ pods = [id \in PodIds |-> NoPod]
    /\ terminating = {}
    /\ last = NoCall
    /\ run = Idle

NextLifecycle ==
    \/ NextCli
    \/ UpBegin \/ UpPoll \/ PodStarts
    \/ SshOrGpus \/ Status \/ Install

SpecLifecycle == InitLifecycle /\ [][NextLifecycle]_vars

-----------------------------------------------------------------------------
(* Properties of setup_ssh_access.  Under Spec every step that changes the *)
(* state is one call: in an action formula the unprimed variables are the  *)
(* disk before the call (and `last` the call before it), the primed ones   *)
(* the disk after it and what it returned.                                 *)

\* the number of places where needle occurs in hay
Count(needle, hay) ==
    Cardinality({i \in 0..(Len(hay) - Len(needle)) :
                    SubSeq(hay, i + 1, i + Len(needle)) = needle})

Max(a, b) == IF a >= b THEN a ELSE b

\* the alias block: Host runpod with its three options
AliasBlock == <<HOST_RUNPOD, NL, HOST_OPTS>>

ForOldEndpoint(e) ==
    \/ Matches(e, BarePattern(last.host))
    \/ Matches(e, BracketPattern(last.host, last.port))

ForNewEndpoint(e) ==
    \/ Matches(e, BarePattern(last'.host))
    \/ Matches(e, BracketPattern(last'.host, last'.port))

\* a successful call with a successful key scan, right after a successful
\* call for another endpoint
Rotation ==
    /\ last.ret = "True"
    /\ last'.ret = "True"
    /\ last'.scanned
    /\ <<last.host, last.port>> # <<last'.host, last'.port>>

\* C1 as stated: after a run for (h1,p1) and a run with a successful key
\* scan for (h2,p2) # (h1,p1), known_hosts holds no entry for h1 or [h1]:p1
\* and holds entries for [h2]:p2.
C1_TrustStoreRotation ==
    [][Rotation =>
        /\ \A e \in fs'[known_hosts] : ~ForOldEndpoint(e)
        /\ \E e \in fs'[known_hosts] :
              Matches(e, BracketPattern(last'.host, last'.port))]_vars

\* C1 as amended: after such a pair of runs known_hosts holds entries for
\* [h2]:p2, and every entry it held before the second run that is not for
\* h2 or [h2]:p2 (those for [h1]:p1 among them) is still there: the run
\* purges entries of the endpoint it is given, not of the one before.
C1_PurgesNewEndpointOnly ==
    [][Rotation =>
        /\ \E e \in fs'[known_hosts] :
              Matches(e, BracketPattern(last'.host, last'.port))
        /\ \A e \in fs'[known_hosts] :
              Matches(e, BarePattern(last'.host)) => e \in fs[known_hosts]
        /\ \A e \in fs[known_hosts] :
              ~ForNewEndpoint(e) => e \in fs'[known_hosts]]_vars

C1_Witness ==
    /\ last.ret = "True"
    /\ last.rel = "changed"
    /\ last.scanned
    /\ \E e \in fs[known_hosts] : e.form = "bracket" /\ e.host # last.host

PreconditionFailures ==
    {<<"Pod not found">>, <<"Pod is not running yet">>, <<"SSH port not found">>}

\* C2 as stated: a call that ends with pod not found, pod not running or
\* SSH port not found returns False, opens no file for writing and leaves
\* the disk (files and directories) as it was.
C2_FailsWithoutSideEffects ==
    [][last'.msg \in PreconditionFailures =>
        /\ last'.ret = "False"
        /\ last'.writes = {}
        /\ fs' = fs
        /\ exists' = exists]_vars

\* C3 as stated: no failure of a step of setup_ssh_access leaves the
\* function as an exception; every call returns.
C3_NeverRaises == last.ret # "raise"

\* the calls that got past writing current.conf and the main configuration
\* (steps 3-4) and met no failure other than one of ssh-keygen or ssh-keyscan
WiredUp ==
    last.msg \in { <<"You can now connect">>,
                   <<"Error setting up SSH", "ssh-keygen">>,
                   <<"Error setting up SSH", "ssh-keyscan">> }

\* C4 as stated: once current.conf and the main configuration are written,
\* the call returns True however ssh-keygen -R and ssh-keyscan turn out: a
\* non-zero exit, no output, or a tool that cannot be launched.
C4_ToolFailuresNotFatal == WiredUp => last.ret = "True"

\* C5: a successful call that follows a successful call for the same
\* endpoint leaves the main SSH configuration as the first one left it:
\* no include directive and no alias block is added a second time.
C5_Idempotent ==
    [][(/\ last.ret = "True"
        /\ last'.ret = "True"
        /\ <<last.host, last.port>> = <<last'.host, last'.port>>)
        => fs'[ssh_config] = fs[ssh_config]]_vars

C5_Witness ==
    /\ last.ret = "True"
    /\ last.rel = "same"
    /\ In(<<INCLUDE>>, fs[ssh_config])

\* C6 as stated: after every successful call, whatever the main SSH
\* configuration held before, it holds the include directive exactly once
\* and the alias block exactly once, and what it held before is unchanged.
C6_ExactlyOnce ==
    [][last'.ret = "True" =>
        /\ Count(<<INCLUDE>>, fs'[ssh_config]) = 1
        /\ Count(AliasBlock, fs'[ssh_config]) = 1
        /\ In(fs[ssh_config], fs'[ssh_config])]_vars

\* What the code does for the main SSH configuration on a successful call:
\* what the file held before stays, and nothing but the include directive
\* and the alias block is added: the directive only where its text did not
\* occur before, the block only where the text "Host runpod" did not occur
\* before.  Occurrences that were there stay, and a line that only starts
\* with "Host runpod" keeps the alias block from being added.
MainConfigAddedOnlyIfAbsent ==
    [][last'.ret = "True" =>
        LET before == fs[ssh_config]
            after == fs'[ssh_config]
            adds_include == IF Count(<<INCLUDE>>, before) = 0 THEN 1 ELSE 0
            adds_block == IF Count(<<HOST_RUNPOD>>, before) = 0 THEN 1 ELSE 0
        IN  /\ In(before, after)
            /\ Count(<<INCLUDE>>, after) = Max(1, Count(<<INCLUDE>>, before))
            /\ Count(<<HOST_RUNPOD>>, after) = Max(1, Count(<<HOST_RUNPOD>>, before))
            /\ Count(AliasBlock, after) = Count(AliasBlock, before) + adds_block
            /\ Len(after) = Len(before) + 2 * adds_include + 4 * adds_block]_vars

\* C7: whenever a call writes the include directive into the main SSH
\* configuration, the file then starts with the directive, followed by all
\* that the file held before.
C7_IncludeFirst ==
    [][last'.wrote_include =>
        /\ Len(fs'[ssh_config]) >= 2 + Len(fs[ssh_config])
        /\ SubSeq(fs'[ssh_config], 1, 2 + Len(fs[ssh_config]))
              = <<INCLUDE, NL>> \o fs[ssh_config]]_vars

C7_Witness ==
    /\ last.wrote_include
    /\ ~last.wrote_block
    /\ Len(fs[ssh_config]) > 2

\* C8: a call does not open the main SSH configuration for writing, and
\* leaves it as it is, when the file holds both the include directive and
\* the alias block; it is opened for writing only when one is missing.
C8_NoWriteWhenBothPresent ==
    [][(/\ ssh_config \in exists
        /\ In(<<INCLUDE>>, fs[ssh_config])
        /\ In(AliasBlock, fs[ssh_config]))
        => /\ ssh_config \notin last'.writes
           /\ fs'[ssh_config] = fs[ssh_config]]_vars

C8_Witness ==
    /\ last.ret = "True"
    /\ ssh_config \notin last.writes
    /\ In(<<INCLUDE>>, fs[ssh_config])
    /\ In(AliasBlock, fs[ssh_config])

\* C9: after a successful call current.conf is exactly the two lines
\* "HostName <host>" and "Port <port>" of the first mapping of private port
\* 22 the API gave for the pod, whatever the file held before; for the
\* mapping {privatePort: 22, ip: "1.2.3.4", publicPort: 40001} these are
\* "HostName 1.2.3.4" and "Port 40001".
C9_ConnectionFileIsLatest ==
    last.ret = "True" =>
        LET ports == pods[P1].ports
            conf == fs[current_conf]
        IN  /\ \E i \in 1..Len(ports) :
                /\ ports[i].privatePort = 22
                /\ \A j \in 1..(i - 1) : ports[j].privatePort # 22
                /\ conf = <<"HostName ", ports[i].ip, NL, "Port ">>
                            \o Str(ports[i].publicPort) \o <<NL>>
            /\ Count(<<NL>>, conf) = 2
            /\ ports = <<Mapping(22, "1.2.3.4", 40001)>> =>
                conf = <<"HostName ", "1.2.3.4", "\n",
                         "Port ", "4", "0", "0", "0", "1", "\n">>

C9_Witness ==
    /\ last.ret = "True"
    /\ last.rel = "changed"
    /\ Len(pods[P1].ports) = 2
    /\ fs[current_conf] = ConfText(H2, 40002)

-----------------------------------------------------------------------------
(* Properties of the commands, under SpecCli *)

\* the pods a target matches by exact name or as the start of their id
Candidates(target) ==
    {id \in PodIds :
        /\ pods[id].present
        /\ \/ pods[id].name = target
           \/ (Len(target) <= Len(id) /\ \A i \in 1..Len(target) : id[i] = target[i])}

\* `down <target>` starts with a target that is no pod's id and matches
\* two pods or more, and no API call fails
AmbiguousDown ==
    /\ run.pc = "idle"
    /\ run'.nth # run.nth
    /\ run'.cmd = "down"
    /\ run'.args # <<>>
    /\ CONFIG_FILE \in exists
    /\ run'.out # "Error"
    /\ \A id \in PodIds : pods[id].present => id # run'.args[1]
    /\ Cardinality(Candidates(run'.args[1])) >= 2

\* C10: `down <target>` with a target that is not a pod id and matches two
\* pods or more (by name or as the start of their id) lists these pods and
\* exits with code 1; terminate_pod is called for none of them and the
\* config file stays as it is.
C10_AmbiguousDownTerminatesNothing ==
    [][AmbiguousDown =>
        /\ run'.pc = "done"
        /\ run'.exit_code = 1
        /\ run'.out = "Multiple pods match"
        /\ run'.listed = Candidates(run'.args[1])
        /\ run'.terminated = {}
        /\ terminating' = terminating
        /\ pods' = pods
        /\ fs' = fs
        /\ exists' = exists]_vars

C10_Witness ==
    /\ run.pc = "done"
    /\ run.cmd = "down"
    /\ run.out = "Multiple pods match"
    /\ Cardinality(run.listed) >= 2
    /\ "RUNPOD_POD_ID" \in config_keys(fs[CONFIG_FILE])
    /\ config_value(fs[CONFIG_FILE], "RUNPOD_POD_ID") \in run.listed

-----------------------------------------------------------------------------
(* Properties of the life of pods, under SpecLifecycle *)

\* what a command did, in any order
Events(r) == {r.did[i] : i \in DOMAIN r.did}

\* the status checks a command's polling loop has made
Checks(r) ==
    IF r.cmd = "up" THEN r.elapsed \div up_check_interval
    ELSE r.elapsed \div down_check_interval

\* a step of a polling loop: one status check, which the API answers
StatusCheck ==
    /\ run.pc \in {"up_wait", "down_wait"}
    /\ run' # run
    /\ run'.out # "Error"

\* what the loop waits for, as the API has it at the check
TargetHolds ==
    IF run.cmd = "up"
    THEN pods[run.pod_id].present /\ pods[run.pod_id].running
    ELSE ~pods[run.pod_id].present

\* C11: a polling loop makes at most 150 status checks in `up` (300/2) and
\* 60 in `down` (30/0.5), every step of it being one more check; it ends as
\* reached at the first check that finds the pod with a runtime (up) or gone
\* (down), goes on after a check that does not while checks are left, and
\* ends as timed out after the last one, which is reported ("may still be
\* starting/terminating") while the command ends with exit code 0.
C11_PollingLoopsEnd ==
    [][StatusCheck =>
        LET limit == IF run.cmd = "up" THEN 150 ELSE 60
            reached == IF run.cmd = "up" THEN "runtime" ELSE "confirmed"
        IN  /\ Checks(run') = Checks(run) + 1
            /\ Checks(run') <= limit
            /\ TargetHolds =>
                /\ run'.pc = "done"
                /\ reached \in Events(run')
                /\ "timeout" \notin Events(run')
            /\ (~TargetHolds /\ Checks(run') < limit) =>
                /\ run'.pc = run.pc
                /\ run'.did = run.did
            /\ (~TargetHolds /\ Checks(run') = limit) =>
                /\ run'.pc = "done"
                /\ "timeout" \in Events(run')
                /\ reached \notin Events(run')
                /\ run'.exit_code = 0
                /\ run.cmd = "up" => run'.out = "Pod may still be starting"]_vars

C11_Witness ==
    /\ run.pc = "done"
    /\ run.cmd = "up"
    /\ "timeout" \in Events(run)
    /\ Checks(run) = 150
    /\ run.exit_code = 0

\* the tracked pod identifier: what load_config gives for RUNPOD_POD_ID
Tracks(lines, id) ==
    /\ "RUNPOD_POD_ID" \in config_keys(lines)
    /\ config_value(lines, "RUNPOD_POD_ID") = id

\* C12: once `up` has created a pod, loading the config gives that pod's
\* id as the tracked pod, to the end of the command; when `down` has issued
\* terminate_pod for the tracked pod and ended without an API error, the
\* config holds no RUNPOD_POD_ID; and in such a `down` the step that removes
\* it comes after the one that issued the call.  (A `down` that is told by
\* the API that the tracked pod is not there issues no call and removes the
\* id as well, lines 442-443 and 473-479.)
C12_TrackedPodLifecycle ==
    [][/\ (run'.cmd = "up" /\ "create_pod" \in Events(run'))
            => Tracks(fs'[CONFIG_FILE], run'.pod_id)
       /\ (/\ run'.cmd = "down"
           /\ run'.pc = "done"
           /\ run'.exit_code = 0
           /\ run'.terminated = {run'.tracked})
            => "RUNPOD_POD_ID" \notin config_keys(fs'[CONFIG_FILE])
       /\ (/\ run'.cmd = "down"
           /\ "terminate_pod" \in Events(run')
           /\ "RUNPOD_POD_ID" \in config_keys(fs[CONFIG_FILE])
           /\ "RUNPOD_POD_ID" \notin config_keys(fs'[CONFIG_FILE]))
            => /\ "terminate_pod" \in Events(run)
               /\ run.terminated = {run.pod_id}
               /\ run'.did[Len(run'.did)] = "remove_pod_id"]_vars

\* `down` has ended having terminated the tracked pod, which an `up` had
\* created after another pod
C12_Witness ==
    /\ run.pc = "done"
    /\ run.cmd = "down"
    /\ run.exit_code = 0
    /\ run.terminated = {run.tracked}
    /\ "remove_pod_id" \in Events(run)
    /\ Cardinality({id \in PodIds : pods[id].present}) = 2
    /\ "RUNPOD_POD_ID" \notin config_keys(fs[CONFIG_FILE])

\* the command reported no config file, a missing pod, an ambiguous
\* target, or an API error that reached the command
ReportsFailure(r) ==
    \/ r.out = "No configuration found"
    \/ (r.out = "No active pod found" /\ r.cmd \in {"ssh", "install"})
    \/ r.out \in {"Pod not found", "No pod found matching"}
    \/ r.out = "Multiple pods match"
    \/ r.out = "Error"

\* the command did what it is for, or found nothing to do
ReportsSuccess(r) ==
    \/ r.out \in { "You can now connect", "SSH setup skipped", "Run ssh to configure",
                   "Pod may still be starting", "Running setup script",
                   "Pod terminated", "Pod ID removed from config",
                   "Found pods", "No pods found", "Status: Running",
                   "Status: Not running", "Setup script installed successfully" }
    \/ (r.cmd = "gpus" /\ "gpus" \in Events(r) /\ r.out = "No active pod found")

\* C13 as stated: a command ends with exit code 1 when the config file is
\* missing, the pod it needs is missing (no tracked pod id, or the API
\* reports the pod as not found), the target is ambiguous or an API error
\* reached it, and with exit code 0 when it succeeded or had nothing to do.
C13_ExitCodes ==
    run.pc = "done" =>
        /\ ReportsFailure(run) => run.exit_code = 1
        /\ ReportsSuccess(run) => run.exit_code = 0

\* `up` saw its pod running and called setup_ssh_access, which did not
\* return True: it returned False, or an exception left it
SshWiringFailed ==
    /\ run.pc = "done"
    /\ run.cmd = "up"
    /\ "runtime" \in Events(run)
    /\ "setup_ssh_access" \in Events(run)
    /\ "True" \notin Events(run)

\* C14 as stated: when setup_ssh_access fails in `up`, for whatever reason,
\* after the pod was created and seen running, the command still ends with
\* exit code 0, the pod's id stays the tracked pod of the config, and no
\* terminate call is issued.
C14_SshFailureKeepsPodStart ==
    SshWiringFailed =>
        /\ run.exit_code = 0
        /\ Tracks(fs[CONFIG_FILE], run.pod_id)
        /\ run.terminated = {}
        /\ run.pod_id \notin terminating

\* C15 as stated: after any `up` and `down` invocations from a config that
\* cmd_setup wrote, the config file holds at most one RUNPOD_POD_ID line,
\* and every pod that `up` created and for which no terminate call was
\* issued is the tracked pod of the config.
C15_NoPodUntracked ==
    LET lines == fs[CONFIG_FILE]
    IN  /\ Cardinality({i \in 1..Len(lines) : lines[i].key = "RUNPOD_POD_ID"}) <= 1
        /\ \A id \in PodIds :
            (pods[id].present /\ id \notin terminating) => Tracks(lines, id)

\* where an event stands in what a command did (0: nowhere)
Pos(r, event) ==
    IF event \in Events(r) THEN CHOOSE i \in DOMAIN r.did : r.did[i] = event ELSE 0

\* the order of cmd_up, but for the auto-SSH setting: setup_ssh_access is
\* called only after a status check saw the pod with a runtime, never after
\* a timeout and never with --no-ssh; check_and_run_setup is called only
\* right after setup_ssh_access returned True
UpOrder ==
    /\ "setup_ssh_access" \in Events(run) =>
        /\ 0 < Pos(run, "runtime")
        /\ Pos(run, "runtime") < Pos(run, "setup_ssh_access")
        /\ "timeout" \notin Events(run)
        /\ "--no-ssh" \notin run.opts
    /\ "check_and_run_setup" \in Events(run) =>
        /\ 0 < Pos(run, "setup_ssh_access")
        /\ Pos(run, "True") = Pos(run, "setup_ssh_access") + 1
        /\ Pos(run, "check_and_run_setup") = Pos(run, "True") + 1

\* the auto-SSH setting of the config `up` loaded ("true" where the config
\* has none)
AutoSshSetting == config_get(run.config, "RUNPOD_AUTO_SSH", <<"true">>)

\* C16 as stated: in `up`, setup_ssh_access is called only after a status
\* check saw the pod with a runtime, never after a timeout, never with
\* --no-ssh and never when the auto-SSH setting is not "true";
\* check_and_run_setup is called only after setup_ssh_access returned True.
C16_UpOrder ==
    run.cmd = "up" =>
        /\ UpOrder
        /\ "setup_ssh_access" \in Events(run) => AutoSshSetting = <<"true">>

\* C16 as amended: the same, the auto-SSH setting being compared without
\* regard to case: setup_ssh_access is never called when the setting in
\* lower case is not "true" (a config that says "True" has it called).
C16_UpOrderAnyCase ==
    run.cmd = "up" =>
        /\ UpOrder
        /\ "setup_ssh_access" \in Events(run) =>
            \E word \in {"true", "True", "TRUE"} : AutoSshSetting = <<word>>

C16_Witness ==
    /\ run.pc = "done"
    /\ run.cmd = "up"
    /\ "check_and_run_setup" \in Events(run)
    /\ AutoSshSetting = <<"True">>

====
